---- MODULE Spec2Model ----
(***************************************************************************)
(* Model of nextage_ros_bridge/base_hands.py (class BaseHands).            *)
(*                                                                         *)
(* The object under study keeps one piece of state, the attribute          *)
(* self._parent (the hardware-access collaborator).  Every operation is    *)
(* synchronous.  Besides that attribute the model records what the most    *)
(* recent call was, the write request _dio_writer received last, what the  *)
(* call handed to parent.writeDigitalOutputWithMask and how it ended,      *)
(* together with two running counters (calls of _dio_writer, invocations   *)
(* of the collaborator).                                                   *)
(*                                                                         *)
(* Spec follows whole object lifetimes (construction, writes, init_dio,    *)
(* hand commands) over a few write requests.  SpecW starts from a          *)
(* constructed object and a write request drawn from all index lists up    *)
(* to MaxLen, and applies _dio_writer to it.                               *)
(*                                                                         *)
(* Python lists are sequences; a 32-element list l is the sequence whose   *)
(* position p (1..32) holds l[p - 1].                                      *)
(***************************************************************************)
EXTENDS Integers, Sequences, FiniteSets, TLC

\* ------------------------------------------------------------------ bounds
\* longest index list handed to _dio_writer by a caller
MaxLen == 2
\* number of _dio_writer calls followed in one behaviour
MaxCalls == 2

\* channel numbers the index lists are drawn from: the reserved index 0,
\* the lowest channel, the first hand channel, two neighbouring hand
\* channels, the highest channel
IndexPool == {0, 1, 17, 24, 25, 32}

IndexLists == UNION {[1..n -> IndexPool] : n \in 0..MaxLen}

Paddings == {0, 1}

Request(dis, das, padding) ==
    [digitalout_indices |-> dis, dio_assignments |-> das, padding |-> padding]

\* every request over IndexLists
AllRequests ==
    {Request(dis, das, padding) :
         dis \in IndexLists, das \in IndexLists, padding \in Paddings}

\* the requests followed through whole object lifetimes
LifecycleLists == {<<>>, <<24>>, <<24, 25>>, <<0>>}

LifecycleRequests ==
    {Request(dis, das, padding) :
         dis \in LifecycleLists, das \in LifecycleLists,
         padding \in Paddings}

\* ------------------------------------------------------- class attributes
DIO_ASSIGN_ON == 1
DIO_ASSIGN_OFF == 0
DIO_MASK == 0
DIO_WIDTH == 32
MSG_ERR_NOTIMPLEMENTED == "The method is not implemented in the derived class"

\* arguments a caller may give to __init__
Parents == {"None", "robot"}

\* Python truth value of a constructor argument ("if not parent")
Truthy(parent) == parent # "None"

\* what parent.writeDigitalOutputWithMask(dout, mask) may do: return a bool,
\* raise AttributeError (device not found, e.g. on the simulator), or raise
\* an exception of some class that is not an AttributeError
HwReturns == {"True", "False"}
HwRaises == {"AttributeError", "OtherError"}
HwOutcomes == HwReturns \cup HwRaises

\* the default hand commands
Gestures ==
    {"airhand_l_drawin", "airhand_r_drawin", "airhand_l_keep",
     "airhand_r_keep", "airhand_l_release", "airhand_r_release",
     "gripper_l_close", "gripper_r_close", "gripper_l_open",
     "gripper_r_open", "handlight_r", "handlight_l", "handlight_both",
     "handtool_l_eject", "handtool_r_eject", "handtool_l_attach",
     "handtool_r_attach"}

\* how a call ends
Return(v) == [kind |-> "return", val |-> v, msg |-> ""]
Raise(e, m) == [kind |-> "raise", val |-> e, msg |-> m]

Range(s) == {s[k] : k \in 1..Len(s)}

\* ---------------------------------------------------------- list helpers
\* range(a, b) as a list
PyRange(a, b) == [k \in 1..(b - a) |-> a + k - 1]

\* "for i in range(n): l.append(v)" on an empty list
Repeat(v, n) == [k \in 1..n |-> v]

\* position (1-based) that the subscript l[k] designates: Python counts a
\* negative subscript from the end of the list
PyPos(l, k) == IF k >= 0 THEN k + 1 ELSE Len(l) + k + 1

\* ------------------------------------------------------------ _dio_writer
SignalAlternate_Hardcoded(padding) == DIO_ASSIGN_ON

\* lines 135-137
SignalAlternate(padding) ==
    IF padding = DIO_ASSIGN_ON THEN DIO_ASSIGN_OFF ELSE DIO_ASSIGN_ON

\* lines 140-141: for i in digitalout_indices: dout[i - 1] = signal_alternate
RECURSIVE AssignCommanded(_, _, _)
AssignCommanded(dout, digitalout_indices, signal_alternate) ==
    IF digitalout_indices = <<>> THEN dout
    ELSE AssignCommanded(
             [dout EXCEPT ![PyPos(dout, Head(digitalout_indices) - 1)] =
                              signal_alternate],
             Tail(digitalout_indices), signal_alternate)

RECURSIVE AssignUnmasked_ZeroBased(_, _)
AssignUnmasked_ZeroBased(mask, dio_assignments) ==
    IF dio_assignments = <<>> THEN mask
    ELSE AssignUnmasked_ZeroBased(
             [mask EXCEPT ![(Head(dio_assignments) % DIO_WIDTH) + 1] = 1],
             Tail(dio_assignments))

\* lines 144-147: for i in dio_assignments: mask[i - 1] = 1
RECURSIVE AssignUnmasked(_, _)
AssignUnmasked(mask, dio_assignments) ==
    IF dio_assignments = <<>> THEN mask
    ELSE AssignUnmasked(
             [mask EXCEPT ![PyPos(mask, Head(dio_assignments) - 1)] = 1],
             Tail(dio_assignments))

Caught_Nothing(exc) == FALSE

\* line 171: except AttributeError
Caught(exc) == exc = "AttributeError"

\* The whole of _dio_writer.  has_p: self._parent exists; outcome: what the
\* collaborator does when it is invoked.  The result says what was handed
\* to the collaborator (nothing when self._parent is missing: the attribute
\* lookup raises AttributeError inside the try block), what the collaborator
\* did, and how _dio_writer ends.
DioWriter(has_p, digitalout_indices, dio_assignments, padding, outcome) ==
    LET dout0 == Repeat(padding, DIO_WIDTH)
        mask0 == Repeat(DIO_MASK, DIO_WIDTH)
        signal_alternate == SignalAlternate(padding)
        dout == AssignCommanded(dout0, digitalout_indices, signal_alternate)
        mask == AssignUnmasked(mask0, dio_assignments)
        hw == IF has_p THEN outcome ELSE "no_parent"
        raised == IF ~has_p THEN "AttributeError"
                  ELSE IF outcome \in HwRaises THEN outcome
                  ELSE "none"
        is_written_dout == IF raised = "none" THEN outcome ELSE "False"
    IN  [submitted |-> IF has_p THEN <<[dout |-> dout, mask |-> mask]>>
                       ELSE <<>>,
         hw |-> hw,
         result |-> IF raised = "none" \/ Caught(raised)
                    THEN Return(is_written_dout)
                    ELSE Raise(raised, "")]

\* ----------------------------------------------------------------- state
VARIABLES
    constructed,   \* a BaseHands object exists
    has_parent,    \* the object has the attribute _parent
    req,           \* the write request: the arguments _dio_writer receives
    call,          \* the most recent call: operation, constructor argument,
                   \* what the collaborator did
    result,        \* how the most recent call ended
    submitted,     \* the (dout, mask) pairs the most recent call handed to
                   \* parent.writeDigitalOutputWithMask, in order
    writeCalls,    \* calls of _dio_writer so far
    hwCalls        \* invocations of writeDigitalOutputWithMask so far

vars == <<constructed, has_parent, req, call, result, submitted, writeCalls,
          hwCalls>>

Call(op, parent, hw) == [op |-> op, parent |-> parent, hw |-> hw]

\* no object yet
Init ==
    /\ constructed = FALSE
    /\ has_parent = FALSE
    /\ req = Request(<<>>, <<>>, DIO_ASSIGN_OFF)
    /\ call = Call("-", "-", "-")
    /\ result = Return("None")
    /\ submitted = <<>>
    /\ writeCalls = 0
    /\ hwCalls = 0

\* lines 84-86
CtorSetsParent(parent) == Truthy(parent)

\* BaseHands(parent)
Construct(parent) ==
    /\ ~constructed
    /\ constructed' = TRUE
    /\ has_parent' = CtorSetsParent(parent)
    /\ call' = Call("__init__", parent, "-")
    /\ result' = Return("None")
    /\ submitted' = <<>>
    /\ UNCHANGED <<req, writeCalls, hwCalls>>

\* self._dio_writer(r.digitalout_indices, r.dio_assignments, r.padding)
Write(r, outcome) ==
    /\ constructed
    /\ writeCalls < MaxCalls
    /\ req' = r
    /\ LET w == DioWriter(has_parent, r.digitalout_indices,
                          r.dio_assignments, r.padding, outcome)
       IN  /\ call' = Call("_dio_writer", "-", w.hw)
           /\ result' = w.result
           /\ submitted' = w.submitted
           /\ hwCalls' = hwCalls + Len(w.submitted)
    /\ writeCalls' = writeCalls + 1
    /\ UNCHANGED <<constructed, has_parent>>

\* lines 190-193: "dout = mask = []" binds both names to ONE list object,
\* so the sixteen appends to mask are seen through dout as well
InitDioLists ==
    LET obj == PyRange(16, 32)
    IN  [dout |-> obj, mask |-> obj]

InitDioReturn_Propagate(w_result) == w_result

\* line 195: the writer's value is dropped, the method has no return
\* statement; an exception the writer lets through passes through
InitDioReturn(w_result) ==
    IF w_result.kind = "return" THEN Return("None") ELSE w_result

\* self.init_dio()
InitDio(outcome) ==
    /\ constructed
    /\ writeCalls < MaxCalls
    /\ LET l == InitDioLists
           r == Request(l.dout, l.mask, DIO_ASSIGN_ON)
           w == DioWriter(has_parent, r.digitalout_indices,
                          r.dio_assignments, r.padding, outcome)
       IN  /\ req' = r
           /\ call' = Call("init_dio", "-", w.hw)
           /\ result' = InitDioReturn(w.result)
           /\ submitted' = w.submitted
           /\ hwCalls' = hwCalls + Len(w.submitted)
    /\ writeCalls' = writeCalls + 1
    /\ UNCHANGED <<constructed, has_parent>>

GestureBody_SilentLight(g) ==
    IF g = "handlight_both" THEN Return("None")
    ELSE Raise("NotImplementedError", MSG_ERR_NOTIMPLEMENTED)

\* lines 200-249: every default hand command has the same body
GestureBody(g) == Raise("NotImplementedError", MSG_ERR_NOTIMPLEMENTED)

\* self.<g>()  (the is_on argument of the handlight commands is not used)
Gesture(g) ==
    /\ constructed
    /\ call' = Call(g, "-", "-")
    /\ result' = GestureBody(g)
    /\ submitted' = <<>>
    /\ UNCHANGED <<constructed, has_parent, req, writeCalls, hwCalls>>

Next ==
    \/ \E parent \in Parents : Construct(parent)
    \/ \E r \in LifecycleRequests, outcome \in HwOutcomes : Write(r, outcome)
    \/ \E outcome \in HwOutcomes : InitDio(outcome)
    \/ \E g \in Gestures : Gesture(g)

Spec == Init /\ [][Next]_vars

\* a constructed object (with or without _parent, lines 84-86) and a caller
\* holding one write request
InitW ==
    /\ constructed = TRUE
    /\ has_parent \in BOOLEAN
    /\ req \in AllRequests
    /\ call = Call("__init__", IF has_parent THEN "robot" ELSE "None", "-")
    /\ result = Return("None")
    /\ submitted = <<>>
    /\ writeCalls = 0
    /\ hwCalls = 0

\* the caller makes the request it holds
NextW == \E outcome \in HwOutcomes : Write(req, outcome)

SpecW == InitW /\ [][NextW]_vars

TypeOK ==
    /\ constructed \in BOOLEAN
    /\ has_parent \in BOOLEAN
    /\ writeCalls \in 0..MaxCalls
    /\ hwCalls \in 0..MaxCalls
    /\ Len(submitted) <= 1
    /\ \A k \in 1..Len(submitted) :
           /\ Len(submitted[k].dout) = DIO_WIDTH
           /\ Len(submitted[k].mask) = DIO_WIDTH

\* --------------------------------------------------------------- helpers
\* the most recent call ran _dio_writer and handed vectors to the hardware
Wrote == call.op = "_dio_writer" /\ Len(submitted) = 1

SetIdx == Range(req.digitalout_indices)
OwnedIdx == Range(req.dio_assignments)
Positions == 1..DIO_WIDTH
Ones(vec) == Cardinality({p \in Positions : vec[p] = 1})

\* ------------------------------------------------------------------ C1
\* C1: every init_dio() submits a mask whose OWNED (1) entries are exactly
\* the positions of the 1-based channels 17..32; channels 1..16 are
\* NOT-OWNED (0).
C1_InitDioMaskIsChannels17to32 ==
    (call.op = "init_dio" /\ Len(submitted) = 1) =>
        \A p \in Positions :
            submitted[1].mask[p] = (IF p \in 17..32 THEN 1 ELSE 0)

\* ------------------------------------------------------------------ C2
\* C2: init_dio() calls the writer with an empty set_indices and fill =
\* ASSERT, so the submitted output vector is ASSERT (1) at every position
\* the submitted mask owns.
C2_InitDioAssertsOwned ==
    call.op = "init_dio" =>
        /\ req.digitalout_indices = <<>>
        /\ req.padding = DIO_ASSIGN_ON
        /\ \A k \in 1..Len(submitted) : \A p \in Positions :
               submitted[k].mask[p] = 1 => submitted[k].dout[p] = DIO_ASSIGN_ON

C6_NoObjectWithoutParent == constructed => has_parent

\* ------------------------------------------------------------------ C7
\* C7: each of the 17 default hand commands ends, in every state, with
\* NotImplementedError carrying the one fixed message, and hands nothing to
\* the hardware.
C7_GesturesNotImplemented ==
    /\ Cardinality(Gestures) = 17
    /\ call.op \in Gestures =>
           /\ result = Raise("NotImplementedError", MSG_ERR_NOTIMPLEMENTED)
           /\ submitted = <<>>

\* a hand command called on an object whose collaborator has served a write
C7_Witness ==
    /\ call.op = "handlight_both"
    /\ has_parent
    /\ hwCalls = 1
    /\ result.kind = "raise"

\* ------------------------------------------------------------------ C8
\* C8: every call of _dio_writer invokes the hardware-write capability
\* exactly once, whatever the invocation does, so after n calls of
\* _dio_writer the capability has been invoked n times.
C8_OneInvocationPerWrite ==
    /\ call.op \in {"_dio_writer", "init_dio"} => Len(submitted) = 1
    /\ hwCalls = writeCalls

\* ------------------------------------------------------------------ C9
\* C9 as claimed: init_dio() returns True exactly when the write it
\* triggered succeeded and False when it failed.
C9_InitDioPropagatesResult ==
    (call.op = "init_dio" /\ result.kind = "return") =>
        result.val = (IF call.hw = "True" THEN "True" ELSE "False")

\* C9 as amended: init_dio() drops the writer's boolean: whenever it
\* returns, it returns None, after a successful write as after a failed one.
C9_InitDioReturnsNone ==
    (call.op = "init_dio" /\ result.kind = "return") => result.val = "None"

\* init_dio() returned after the hardware accepted the write
C9_Witness ==
    /\ call.op = "init_dio"
    /\ call.hw = "True"
    /\ Len(submitted) = 1
    /\ result.kind = "return"

\* ------------------------------------------------------------------ C10
\* C10: index 0 is not addressable: every position that a write turns away
\* from fill in the output vector, or marks OWNED in the mask, is the
\* position of a non-zero index of the request (a 0 among the indices
\* changes nothing, position 32 included).
C10_ZeroNotAddressable ==
    Wrote =>
        \A p \in Positions :
            /\ submitted[1].mask[p] = 1 => p \in OwnedIdx \ {0}
            /\ submitted[1].dout[p] # req.padding => p \in SetIdx \ {0}
====
